---------------------------- MODULE Spec2Model ----------------------------
(***************************************************************************)
(* A model of the IssueClassifier class of src/index.js (the classify.js   *)
(* part of that file): its constructor, extractJSON, buildPrompt and       *)
(* classifyIssue.                                                          *)
(*                                                                         *)
(* Text is modelled as a sequence of units.  A unit is one character       *)
(* (backtick, brace, double quote, colon, comma, space, newline) or a word *)
(* of letters ("json", "difficulty", "easy", ...), which the code never    *)
(* splits: the only letters it looks at are the four of "json" after three *)
(* backticks.                                                              *)
(***************************************************************************)
EXTENDS Integers, Sequences, FiniteSets, Bags, TLC

VARIABLES
    config,      \* the object handed to the constructor
    ctor,        \* "new" | "constructed" | "threw": how construction ended
    clients,     \* the OpenAI clients created so far, in creation order
    self,        \* the fields of the instance (this.mosaiaClient, ...)
    pc,          \* per invocation of classifyIssue: where it stands
    args,        \* per invocation: its arguments
    prompt,      \* per invocation: the local prompt
    sent,        \* per invocation: the completion requests issued, in order
    got,         \* per invocation: what the providers answered, in order
    result,      \* per invocation: how the returned promise settled
    display,     \* the console: a bag of the lines written
    exText,      \* extractJSON called alone: its argument
    exOut,       \* extractJSON called alone: pending, or what it returned or threw
    bpIn,        \* buildPrompt called alone: its arguments
    bpOut        \* buildPrompt called alone: pending, or the string returned

vars == << config, ctor, clients, self, pc, args, prompt, sent, got, result,
           display, exText, exOut, bpIn, bpOut >>

ctorVars == << config, ctor, clients, self >>
callVars == << pc, args, prompt, sent, got, result, display >>
exVars == << exText, exOut >>
bpVars == << bpIn, bpOut >>

(***************************************************************************)
(* Bounds of the model.                                                    *)
(***************************************************************************)
\* how many chunks an input text of extractJSON is put together from
MaxChunks == 4
\* how many labels an issue carries at most
MaxLabels == 2
\* how many invocations of classifyIssue run concurrently on one instance
NumCalls == 2

(***************************************************************************)
(* Units of text.                                                          *)
(***************************************************************************)
\* the backtick character (no backtick may stand inside a TLA+ string)
BT == "BACKTICK"
QT == "\""
SP == " "
NL == "\n"

\* what String.prototype.trim and the JSON grammar treat as white space
IsWS(u) == u \in {SP, NL}

\* JavaScript values that may stand where a string is expected
JSString(s) == [type |-> "string", chars |-> s]
JSNull == [type |-> "null", chars |-> << >>]

\* values a throw statement or a rejected promise may carry
JSError(n, m) == [nullish |-> FALSE, name |-> n, message |-> m]
JSUndefined == [nullish |-> TRUE, name |-> "", message |-> ""]

Min(S) == CHOOSE x \in S : \A y \in S : x <= y
Max(S) == CHOOSE x \in S : \A y \in S : x >= y

(***************************************************************************)
(* text.replace(/BBBjson|BBB/g, ""), where B is a backtick                 *)
(* The regular expression is applied from the left; at each position the   *)
(* first alternative is tried first, and the search goes on after a match. *)
(***************************************************************************)
RECURSIVE RemoveFencesFirstOnly(_, _)
RemoveFencesFirstOnly(s, done) ==
    IF s = << >> THEN << >>
    ELSE IF ~done /\ Len(s) >= 4 /\ s[1] = BT /\ s[2] = BT /\ s[3] = BT /\ s[4] = "json"
         THEN RemoveFencesFirstOnly(SubSeq(s, 5, Len(s)), TRUE)
    ELSE IF ~done /\ Len(s) >= 3 /\ s[1] = BT /\ s[2] = BT /\ s[3] = BT
         THEN RemoveFencesFirstOnly(SubSeq(s, 4, Len(s)), TRUE)
    ELSE << s[1] >> \o RemoveFencesFirstOnly(Tail(s), done)

\* the same replace without the g flag: only the first marker goes
RemoveFencesNoG(s) == RemoveFencesFirstOnly(s, FALSE)

RECURSIVE RemoveFencesFrom(_)
RemoveFencesFrom(s) ==
    IF s = << >> THEN << >>
    ELSE IF Len(s) >= 4 /\ s[1] = BT /\ s[2] = BT /\ s[3] = BT /\ s[4] = "json"
         THEN RemoveFencesFrom(SubSeq(s, 5, Len(s)))
    ELSE IF Len(s) >= 3 /\ s[1] = BT /\ s[2] = BT /\ s[3] = BT
         THEN RemoveFencesFrom(SubSeq(s, 4, Len(s)))
    ELSE << s[1] >> \o RemoveFencesFrom(Tail(s))

RemoveFences(s) == RemoveFencesFrom(s)

(***************************************************************************)
(* String.prototype.trim                                                   *)
(***************************************************************************)
Trim(s) ==
    LET keep == { i \in 1..Len(s) : ~IsWS(s[i]) }
    IN  IF keep = {} THEN << >> ELSE SubSeq(s, Min(keep), Max(keep))

(***************************************************************************)
(* cleaned.match(/\{[\s\S]*\}/): the leftmost position at which the        *)
(* expression matches, and from there the longest match.  NoMatch stands   *)
(* for null.                                                               *)
(***************************************************************************)
NoMatch == [found |-> FALSE, text |-> << >>]

\* the regular expression with a lazy star: the first "}" ends the match
RegexMatchLazy(s) ==
    LET starts == { i \in 1..Len(s) : s[i] = "{" /\ \E j \in (i+1)..Len(s) : s[j] = "}" }
    IN  IF starts = {} THEN NoMatch
        ELSE LET i == Min(starts)
                 j == Min({ k \in (i+1)..Len(s) : s[k] = "}" })
             IN  [found |-> TRUE, text |-> SubSeq(s, i, j)]

RegexMatchGreedy(s) ==
    LET starts == { i \in 1..Len(s) : s[i] = "{" /\ \E j \in (i+1)..Len(s) : s[j] = "}" }
    IN  IF starts = {} THEN NoMatch
        ELSE LET i == Min(starts)
                 j == Max({ k \in (i+1)..Len(s) : s[k] = "}" })
             IN  [found |-> TRUE, text |-> SubSeq(s, i, j)]

RegexMatch(s) == RegexMatchGreedy(s)

(***************************************************************************)
(* JSON.parse, for the values the units can spell: objects whose members   *)
(* are strings or objects.  A parsed value is the set of its leaves, each  *)
(* a pair of the path of keys leading to it and the leaf: a string, or an  *)
(* object without members.  A key given twice keeps its last value.        *)
(***************************************************************************)
StringLeaf(s) == [type |-> "string", chars |-> s]
EmptyObjectLeaf == [type |-> "object", chars |-> << >>]

ParseFail == [ok |-> FALSE, val |-> {}, next |-> 0]

SkipWS(s, p) ==
    LET rest == { q \in p..Len(s) : ~IsWS(s[q]) }
    IN  IF rest = {} THEN Len(s) + 1 ELSE Min(rest)

\* a string literal starting at the quote s[p]; no escapes are spelled by the
\* units, and a raw newline inside a literal is a syntax error
ParseString(s, p) ==
    LET closing == { q \in (p+1)..Len(s) : s[q] = QT }
    IN  IF closing = {} THEN [ok |-> FALSE, str |-> << >>, next |-> 0]
        ELSE LET q == Min(closing)
                 body == SubSeq(s, p + 1, q - 1)
             IN  IF \E i \in 1..Len(body) : body[i] = NL
                 THEN [ok |-> FALSE, str |-> << >>, next |-> 0]
                 ELSE [ok |-> TRUE, str |-> body, next |-> q + 1]

SetMember(acc, key, v) ==
    { e \in acc : e[1][1] # key } \cup { << << key >> \o e[1], e[2] >> : e \in v }

RECURSIVE ParseValue(_, _)
RECURSIVE ParseMembers(_, _, _)

ParseValue(s, p0) ==
    LET p == SkipWS(s, p0)
    IN  IF p > Len(s) THEN ParseFail
        ELSE IF s[p] = QT
             THEN LET r == ParseString(s, p)
                  IN  IF r.ok
                      THEN [ok |-> TRUE, val |-> { << << >>, StringLeaf(r.str) >> }, next |-> r.next]
                      ELSE ParseFail
        ELSE IF s[p] = "{"
             THEN LET q == SkipWS(s, p + 1)
                  IN  IF q <= Len(s) /\ s[q] = "}"
                      THEN [ok |-> TRUE, val |-> { << << >>, EmptyObjectLeaf >> }, next |-> q + 1]
                      ELSE ParseMembers(s, q, {})
        ELSE ParseFail

ParseMembers(s, p, acc) ==
    IF p > Len(s) \/ s[p] # QT THEN ParseFail
    ELSE LET k == ParseString(s, p)
         IN  IF ~k.ok THEN ParseFail
             ELSE LET c == SkipWS(s, k.next)
                  IN  IF c > Len(s) \/ s[c] # ":" THEN ParseFail
                      ELSE LET v == ParseValue(s, c + 1)
                           IN  IF ~v.ok THEN ParseFail
                               ELSE LET acc2 == SetMember(acc, k.str, v.val)
                                        d == SkipWS(s, v.next)
                                    IN  IF d > Len(s) THEN ParseFail
                                        ELSE IF s[d] = ","
                                             THEN ParseMembers(s, SkipWS(s, d + 1), acc2)
                                        ELSE IF s[d] = "}"
                                             THEN [ok |-> TRUE, val |-> acc2, next |-> d + 1]
                                        ELSE ParseFail

\* JSON.parse(text): the whole text must be one value
JSONParse(s) ==
    LET r == ParseValue(s, 1)
    IN  IF r.ok /\ SkipWS(s, r.next) = Len(s) + 1
        THEN [ok |-> TRUE, val |-> r.val]
        ELSE [ok |-> FALSE, val |-> {}]

(***************************************************************************)
(* How a call ends: it returns a value or throws one.                      *)
(***************************************************************************)
Pending == [kind |-> "pending", value |-> {}, err |-> JSUndefined]
Return(v) == [kind |-> "return", value |-> v, err |-> JSUndefined]
ReturnNull == [kind |-> "null", value |-> {}, err |-> JSUndefined]
Throw(e) == [kind |-> "throw", value |-> {}, err |-> e]

NoJSONFound == JSError("Error", "No JSON found in model response")
SyntaxErr == JSError("SyntaxError", "Unexpected token in JSON")
TypeErr == JSError("TypeError", "Cannot read properties")

(***************************************************************************)
(* extractJSON(text)                                                       *)
(***************************************************************************)
CleanText(s) == Trim(RemoveFences(s))

\* extractJSON that hands the cleaned text to JSON.parse when nothing matched
ExtractJSONNoThrow(text) ==
    IF text.type # "string" THEN Throw(TypeErr)
    ELSE LET cleaned == CleanText(text.chars)
             match == RegexMatch(cleaned)
             parsed == JSONParse(IF match.found THEN match.text ELSE cleaned)
         IN  IF parsed.ok THEN Return(parsed.val) ELSE Throw(SyntaxErr)

ExtractJSON(text) ==
    IF text.type # "string" THEN Throw(TypeErr)
    ELSE LET cleaned == CleanText(text.chars)
             match == RegexMatch(cleaned)
         IN  IF ~match.found THEN Throw(NoJSONFound)
             ELSE LET parsed == JSONParse(match.text)
                  IN  IF parsed.ok THEN Return(parsed.val) ELSE Throw(SyntaxErr)

(***************************************************************************)
(* buildPrompt(title, description, language, labels = [])                  *)
(* The prompt is the template literal of lines 131-162: its fixed parts    *)
(* and the four interpolated values, labelString twice.  An argument is an *)
(* opaque string; labels is a list of strings, or is left out.             *)
(***************************************************************************)
LabelList(items) == [given |-> TRUE, items |-> items]
LabelsOmitted == [given |-> FALSE, items |-> << >>]

\* the default parameter value: labels = []
LabelsOrDefault(labels) == IF labels.given THEN labels.items ELSE << >>

\* Array.prototype.join
RECURSIVE Join(_, _)
Join(list, sep) ==
    IF Len(list) = 0 THEN << >>
    ELSE IF Len(list) = 1 THEN << list[1] >>
    ELSE << list[1], sep >> \o Join(Tail(list), sep)

\* the ternary with its branches swapped
LabelStringSwapped(list) == IF Len(list) > 0 THEN << "None" >> ELSE Join(list, ", ")

LabelString(list) == IF Len(list) > 0 THEN Join(list, ", ") ELSE << "None" >>

TplRubric == "You are an expert AI assistant ... - Issue labels: "
TplFormat == " - Complexity of debugging ... Classify this issue: Title: "
TplDescription == " Description: "
TplLanguage == " Language: "
TplLabels == " Labels: "
TplEnd == " "

BuildPrompt(title, description, language, labels) ==
    LET labelString == LabelString(LabelsOrDefault(labels))
    IN  << TplRubric >> \o labelString
        \o << TplFormat, title, TplDescription, description, TplLanguage, language,
              TplLabels >>
        \o labelString \o << TplEnd >>

(***************************************************************************)
(* constructor({ mosaiaApiKey, mosaiaAgentId, openRouterApiKey })          *)
(***************************************************************************)
Undefined == [type |-> "undefined", chars |-> ""]
Str(s) == [type |-> "string", chars |-> s]

\* !v for the values a credential may be: undefined and "" are falsy
Falsy(v) == v.type = "undefined" \/ (v.type = "string" /\ v.chars = "")

MosaiaBaseURL == "https://api.mosaia.ai/v1/agent"
OpenRouterBaseURL == "https://openrouter.ai/api/v1"

NewOpenAI(key, url) == [apiKey |-> key, baseURL |-> url]
NoClient == [apiKey |-> Undefined, baseURL |-> ""]

NoInstance ==
    [exists |-> FALSE, mosaiaClient |-> NoClient, fallbackClient |-> NoClient,
     mosaiaAgentId |-> Undefined]

ConfigError ==
    JSError("Error",
            "All API keys and agent IDs must be provided: mosaiaApiKey, mosaiaAgentId, openRouterApiKey")

\* the guard of line 82 without its last operand
CredentialMissingNoFallbackKey(c) == Falsy(c.mosaiaApiKey) \/ Falsy(c.mosaiaAgentId)

CredentialMissing(c) ==
    Falsy(c.mosaiaApiKey) \/ Falsy(c.mosaiaAgentId) \/ Falsy(c.openRouterApiKey)

Construct ==
    /\ ctor.state = "new"
    /\ IF CredentialMissing(config)
       THEN /\ ctor' = [state |-> "threw", err |-> ConfigError]
            /\ UNCHANGED << clients, self >>
       ELSE LET primary == NewOpenAI(config.mosaiaApiKey, MosaiaBaseURL)
                fallback == NewOpenAI(config.openRouterApiKey, OpenRouterBaseURL)
            IN  /\ clients' = clients \o << primary, fallback >>
                /\ self' = [exists |-> TRUE, mosaiaClient |-> primary,
                            fallbackClient |-> fallback,
                            mosaiaAgentId |-> config.mosaiaAgentId]
                /\ ctor' = [state |-> "constructed", err |-> JSUndefined]
    /\ UNCHANGED << config, callVars, exVars, bpVars >>

(***************************************************************************)
(* classifyIssue(title, description, language, labels = [])                *)
(*                                                                         *)
(* An invocation runs in three uninterrupted stretches, cut at its two     *)
(* awaits: up to the primary request, from the primary answer to the       *)
(* fallback request or the end, and from the fallback answer to the end.   *)
(***************************************************************************)
MaxTokens == 500
FallbackModel == "mistralai/mistral-small-3.2-24b-instruct:free"

Calls == 1..NumCalls

CompletionRequest(client, model, p) ==
    [client |-> client, model |-> model,
     messages |-> << [role |-> "user", content |-> p] >>,
     max_tokens |-> MaxTokens]

\* what a provider may answer: a response with its choices (each the content
\* of its message), or a rejection carrying any value
Resolved(choices) == [kind |-> "resolve", choices |-> choices, err |-> JSUndefined]
Rejected(e) == [kind |-> "reject", choices |-> << >>, err |-> e]

\* a line written to the console
Line(level, tag, text, msg) == [level |-> level, tag |-> tag, text |-> text, msg |-> msg]
Written(d, line) == d (+) SetToBag({ line })

\* the body of a try block without its call to extractJSON: the content is
\* handed to JSON.parse as it came
TryAttemptNoExtract(o, tag) ==
    IF o.kind = "reject" THEN [out |-> Throw(o.err), lines |-> << >>]
    ELSE IF Len(o.choices) = 0 THEN [out |-> Throw(TypeErr), lines |-> << >>]
    ELSE LET text == o.choices[1]
             parsed == JSONParse(text.chars)
         IN  [out |-> IF text.type # "string" THEN Throw(TypeErr)
                      ELSE IF parsed.ok THEN Return(parsed.val) ELSE Throw(SyntaxErr),
              lines |-> << Line("log", tag, text, "") >>]

\* the body of a try block from the answer of the awaited call on (lines
\* 185-187 and 200-202): res.choices[0].message.content, console.log,
\* extractJSON
TryAttempt(o, tag) ==
    IF o.kind = "reject" THEN [out |-> Throw(o.err), lines |-> << >>]
    ELSE IF Len(o.choices) = 0 THEN [out |-> Throw(TypeErr), lines |-> << >>]
    ELSE LET text == o.choices[1]
         IN  [out |-> ExtractJSON(text), lines |-> << Line("log", tag, text, "") >>]

WrittenAll(d, lines) == IF lines = << >> THEN d ELSE Written(d, lines[1])

NoArgs == [title |-> "", description |-> "", language |-> "", labels |-> LabelsOmitted]

Call(i, A) ==
    /\ self.exists
    /\ pc[i] = "Idle"
    /\ \E a \in A :
         LET p == BuildPrompt(a.title, a.description, a.language, a.labels)
         IN  /\ args' = [args EXCEPT ![i] = a]
             /\ prompt' = [prompt EXCEPT ![i] = p]
             /\ sent' = [sent EXCEPT ![i] =
                           << CompletionRequest(self.mosaiaClient, self.mosaiaAgentId, p) >>]
    /\ pc' = [pc EXCEPT ![i] = "CallingPrimary"]
    /\ UNCHANGED << got, result, display, ctorVars, exVars, bpVars >>

\* PrimaryAnswers with a switch remembered on the instance: after a failed
\* primary attempt this.mosaiaAgentId is set to the fallback model
PrimaryAnswersSticky(i, O) ==
    /\ pc[i] = "CallingPrimary"
    /\ \E o \in O :
         LET t == TryAttempt(o, "[Mosaia] Raw response:")
             d == WrittenAll(display, t.lines)
         IN  /\ got' = [got EXCEPT ![i] = Append(@, o)]
             /\ IF t.out.kind = "return"
                THEN /\ result' = [result EXCEPT ![i] = t.out]
                     /\ pc' = [pc EXCEPT ![i] = "Parsed"]
                     /\ display' = d
                     /\ UNCHANGED << sent, self >>
                ELSE IF t.out.err.nullish
                THEN /\ result' = [result EXCEPT ![i] = Throw(TypeErr)]
                     /\ pc' = [pc EXCEPT ![i] = "Rejected"]
                     /\ display' = d
                     /\ UNCHANGED << sent, self >>
                ELSE /\ display' = Written(d, Line("warn", "[Mosaia] Failed:", JSNull,
                                                   t.out.err.message))
                     /\ sent' = [sent EXCEPT ![i] =
                                   Append(@, CompletionRequest(self.fallbackClient,
                                                               Str(FallbackModel), prompt[i]))]
                     /\ self' = [self EXCEPT !.mosaiaAgentId = Str(FallbackModel)]
                     /\ pc' = [pc EXCEPT ![i] = "CallingFallback"]
                     /\ UNCHANGED result
    /\ UNCHANGED << args, prompt, config, ctor, clients, exVars, bpVars >>

PrimaryAnswers(i, O) ==
    /\ pc[i] = "CallingPrimary"
    /\ \E o \in O :
         LET t == TryAttempt(o, "[Mosaia] Raw response:")
             d == WrittenAll(display, t.lines)
         IN  /\ got' = [got EXCEPT ![i] = Append(@, o)]
             /\ IF t.out.kind = "return"
                THEN /\ result' = [result EXCEPT ![i] = t.out]
                     /\ pc' = [pc EXCEPT ![i] = "Parsed"]
                     /\ display' = d
                     /\ UNCHANGED sent
                ELSE IF t.out.err.nullish
                THEN \* err.message of null or undefined throws inside the catch block
                     /\ result' = [result EXCEPT ![i] = Throw(TypeErr)]
                     /\ pc' = [pc EXCEPT ![i] = "Rejected"]
                     /\ display' = d
                     /\ UNCHANGED sent
                ELSE /\ display' = Written(d, Line("warn", "[Mosaia] Failed:", JSNull,
                                                   t.out.err.message))
                     /\ sent' = [sent EXCEPT ![i] =
                                   Append(@, CompletionRequest(self.fallbackClient,
                                                               Str(FallbackModel), prompt[i]))]
                     /\ pc' = [pc EXCEPT ![i] = "CallingFallback"]
                     /\ UNCHANGED result
    /\ UNCHANGED << args, prompt, ctorVars, exVars, bpVars >>

FallbackAnswers(i, O) ==
    /\ pc[i] = "CallingFallback"
    /\ \E o \in O :
         LET t == TryAttempt(o, "[OpenRouter] Raw response:")
             d == WrittenAll(display, t.lines)
         IN  /\ got' = [got EXCEPT ![i] = Append(@, o)]
             /\ IF t.out.kind = "return"
                THEN /\ result' = [result EXCEPT ![i] = t.out]
                     /\ pc' = [pc EXCEPT ![i] = "Parsed"]
                     /\ display' = d
                ELSE IF t.out.err.nullish
                THEN \* fallbackErr.message of null or undefined throws inside the catch block
                     /\ result' = [result EXCEPT ![i] = Throw(TypeErr)]
                     /\ pc' = [pc EXCEPT ![i] = "Rejected"]
                     /\ display' = d
                ELSE /\ display' = Written(d, Line("error", "[OpenRouter] Failed:", JSNull,
                                                   t.out.err.message))
                     /\ result' = [result EXCEPT ![i] = ReturnNull]
                     /\ pc' = [pc EXCEPT ![i] = "Failed"]
    /\ UNCHANGED << args, prompt, sent, ctorVars, exVars, bpVars >>

(***************************************************************************)
(* extractJSON and buildPrompt called on their own.                        *)
(***************************************************************************)
CallExtractJSON ==
    /\ exOut.kind = "pending"
    /\ exOut' = ExtractJSON(exText)
    /\ UNCHANGED << exText, ctorVars, callVars, bpVars >>

NotBuilt == [done |-> FALSE, text |-> << >>]

CallBuildPrompt ==
    /\ ~bpOut.done
    /\ bpOut' = [done |-> TRUE,
                 text |-> BuildPrompt(bpIn.title, bpIn.description, bpIn.language,
                                      bpIn.labels)]
    /\ UNCHANGED << bpIn, ctorVars, callVars, exVars >>

(***************************************************************************)
(* Inputs.                                                                 *)
(***************************************************************************)
ObjectText(d) == << "{", QT, "difficulty", QT, ":", QT, d, QT, "}" >>
MemberText(d) == << QT, "difficulty", QT, ":", QT, d, QT >>
KeyText == << QT, "difficulty", QT, ":" >>
OpenKeyText == << "{" >> \o KeyText
FenceText == << BT, BT, BT >>
FenceJsonText == << BT, BT, BT, "json" >>

\* the pieces the input texts of extractJSON are put together from
Chunks ==
    { FenceJsonText, FenceText, << BT >>, << "{" >>, << "}" >>, MemberText("easy"),
      ObjectText("hard"), OpenKeyText, << "thanks" >>, << NL >> }

RECURSIVE TextsOf(_)
TextsOf(n) ==
    IF n = 0 THEN { << >> }
    ELSE LET shorter == TextsOf(n - 1)
         IN  shorter \cup { t \o c : t \in shorter, c \in Chunks }

ExtractInputs == { JSNull } \cup { JSString(t) : t \in TextsOf(MaxChunks) }

\* the texts the providers answer with
FencedEasy == FenceJsonText \o << NL >> \o ObjectText("easy") \o << NL >> \o FenceText
PlainDifficult == ObjectText("difficult")
ProseMedium ==
    << "Here", SP, "is", SP, "the", SP, "result", ":", SP >> \o ObjectText("medium")
    \o << SP, "thanks" >>
PlainHard == ObjectText("hard")
NestedEasy == << "{" >> \o KeyText \o ObjectText("easy") \o << "}" >>
NoBraces == << "no", SP, "braces", SP, "here" >>
NotValid == << "{", "not", SP, "valid", SP, "json", "}" >>

TransportError == JSError("APIConnectionError", "Connection error.")

Outcomes ==
    { Resolved(<< JSString(t) >>) :
        t \in { FencedEasy, PlainDifficult, ProseMedium, PlainHard, NestedEasy, NoBraces,
                NotValid } }
    \cup { Resolved(<< >>), Resolved(<< JSNull >>), Rejected(TransportError),
           Rejected(JSUndefined) }

ConcurrentOutcomes ==
    { Resolved(<< JSString(FencedEasy) >>), Resolved(<< JSString(NoBraces) >>),
      Rejected(TransportError), Rejected(JSUndefined) }

Titles == { "Login button not working on Android", "Implement biometric authentication" }
LabelNames == { "bug", "mobile", "" }

RECURSIVE ListsOf(_)
ListsOf(n) ==
    IF n = 0 THEN { << >> }
    ELSE LET shorter == ListsOf(n - 1)
         IN  shorter \cup { Append(l, x) : l \in shorter, x \in LabelNames }

LabelInputs == { LabelsOmitted } \cup { LabelList(l) : l \in ListsOf(MaxLabels) }

PromptInputs ==
    [title : Titles, description : { "After UI update, login button doesn't respond." },
     language : { "JavaScript", "JavaScript / Java / Swift" }, labels : LabelInputs]

ClassifyArgs ==
    [title : Titles, description : { "After UI update, login button doesn't respond." },
     language : { "JavaScript" }, labels : { LabelsOmitted, LabelList(<< "bug", "mobile" >>) }]

ConcurrentArgs ==
    [title : Titles, description : { "After UI update, login button doesn't respond." },
     language : { "JavaScript" }, labels : { LabelList(<< "bug" >>) }]

Credentials == { Undefined, Str(""), Str("key-a"), Str("key-b") }
Configs ==
    [mosaiaApiKey : Credentials, mosaiaAgentId : Credentials, openRouterApiKey : Credentials]

DefaultConfig ==
    [mosaiaApiKey |-> Str("key-a"), mosaiaAgentId |-> Str("6861a37adc8f3af29840e926"),
     openRouterApiKey |-> Str("key-b")]

DefaultInstance ==
    [exists |-> TRUE, mosaiaClient |-> NewOpenAI(Str("key-a"), MosaiaBaseURL),
     fallbackClient |-> NewOpenAI(Str("key-b"), OpenRouterBaseURL),
     mosaiaAgentId |-> Str("6861a37adc8f3af29840e926")]

(***************************************************************************)
(* Initial states.                                                         *)
(***************************************************************************)
Constructed ==
    /\ config = DefaultConfig
    /\ ctor = [state |-> "constructed", err |-> JSUndefined]
    /\ clients = << DefaultInstance.mosaiaClient, DefaultInstance.fallbackClient >>
    /\ self = DefaultInstance

NoCalls ==
    /\ pc = [i \in Calls |-> "Idle"]
    /\ args = [i \in Calls |-> NoArgs]
    /\ prompt = [i \in Calls |-> << >>]
    /\ sent = [i \in Calls |-> << >>]
    /\ got = [i \in Calls |-> << >>]
    /\ result = [i \in Calls |-> Pending]
    /\ display = EmptyBag

NoExtract == exText = JSString(<< >>) /\ exOut = Pending
NoPrompt == bpIn = NoArgs /\ bpOut = NotBuilt

(***************************************************************************)
(* Specifications.                                                         *)
(***************************************************************************)
\* one invocation of classifyIssue on a constructed instance
Init == Constructed /\ NoCalls /\ NoExtract /\ NoPrompt
Next ==
    \/ Call(1, ClassifyArgs)
    \/ PrimaryAnswers(1, Outcomes)
    \/ FallbackAnswers(1, Outcomes)
Spec == Init /\ [][Next]_vars

\* NumCalls invocations on one instance, interleaved at their awaits
NextConcurrent ==
    \E i \in Calls :
        \/ Call(i, ConcurrentArgs)
        \/ PrimaryAnswers(i, ConcurrentOutcomes)
        \/ FallbackAnswers(i, ConcurrentOutcomes)
SpecConcurrent == Init /\ [][NextConcurrent]_vars

\* new IssueClassifier(config)
InitConstruct ==
    /\ config \in Configs
    /\ ctor = [state |-> "new", err |-> JSUndefined]
    /\ clients = << >>
    /\ self = NoInstance
    /\ NoCalls /\ NoExtract /\ NoPrompt
NextConstruct == Construct
SpecConstruct == InitConstruct /\ [][NextConstruct]_vars

\* extractJSON(text)
InitExtract ==
    /\ exText \in ExtractInputs
    /\ exOut = Pending
    /\ Constructed /\ NoCalls /\ NoPrompt
NextExtract == CallExtractJSON
SpecExtract == InitExtract /\ [][NextExtract]_vars

\* buildPrompt(title, description, language, labels)
InitPrompt ==
    /\ bpIn \in PromptInputs
    /\ bpOut = NotBuilt
    /\ Constructed /\ NoCalls /\ NoExtract
NextPrompt == CallBuildPrompt
SpecPrompt == InitPrompt /\ [][NextPrompt]_vars

(***************************************************************************)
(* Properties of extractJSON (checked under SpecExtract).                  *)
(***************************************************************************)
HasFence(s) == \E i \in 1..(Len(s) - 2) : s[i] = BT /\ s[i+1] = BT /\ s[i+2] = BT
IsPlainUnit(u) == u \notin { BT, "json", SP, NL }
Opens(s) == { i \in 1..Len(s) : s[i] = "{" }
Closes(s) == { j \in 1..Len(s) : s[j] = "}" }
HasBracePair(s) == \E i \in Opens(s) : \E j \in Closes(s) : i < j
FirstToLast(s) == SubSeq(s, Min(Opens(s)), Max(Closes(s)))

Rendered(items) ==
    IF items = << >> THEN << "None" >>
    ELSE [k \in 1..(2 * Len(items) - 1) |->
            IF k % 2 = 1 THEN items[(k + 1) \div 2] ELSE ", "]

\* C9: the prompt buildPrompt returns renders the label list, at both places
\* of the template, as "None" when labels is empty (or left out) and otherwise
\* as the labels in input order separated by ", "; the call writes nothing to
\* the console and leaves the instance and its arguments as they were.
C9_LabelListRendered ==
    bpOut.done =>
        LET r == Rendered(IF bpIn.labels.given THEN bpIn.labels.items ELSE << >>)
            n == Len(r)
            t == bpOut.text
        IN  /\ Len(t) = 2 * n + 9
            /\ SubSeq(t, 2, n + 1) = r
            /\ SubSeq(t, n + 9, 2 * n + 8) = r
            /\ t[n + 3] = bpIn.title /\ t[n + 5] = bpIn.description /\ t[n + 7] = bpIn.language
            /\ display = EmptyBag
            /\ self = DefaultInstance

\* a prompt built for two different labels
C9_Witness ==
    /\ bpOut.done
    /\ bpIn.labels.given
    /\ Len(bpIn.labels.items) = 2
    /\ bpIn.labels.items[1] # bpIn.labels.items[2]

(***************************************************************************)
(* Properties of the constructor (checked under SpecConstruct).            *)
(***************************************************************************)
NonEmptyString(v) == v.type = "string" /\ v.chars # ""
AllCredentialsGiven(c) ==
    /\ NonEmptyString(c.mosaiaApiKey)
    /\ NonEmptyString(c.mosaiaAgentId)
    /\ NonEmptyString(c.openRouterApiKey)

\* C4: construction succeeds exactly for the triples of non-empty strings;
\* for every other triple it throws the configuration error with no client
\* created and no instance; a constructed instance holds the three
\* credentials given.
C4_ConstructionAllOrNothing ==
    /\ ctor.state # "constructed" => clients = << >> /\ ~self.exists
    /\ ctor.state # "new" =>
         /\ ctor.state = "constructed" <=> AllCredentialsGiven(config)
         /\ ctor.state = "threw" <=> ~AllCredentialsGiven(config)
         /\ ctor.state = "threw" => ctor.err = ConfigError
         /\ ctor.state = "constructed" =>
              /\ self.exists
              /\ clients = << self.mosaiaClient, self.fallbackClient >>
              /\ self.mosaiaClient = NewOpenAI(config.mosaiaApiKey, MosaiaBaseURL)
              /\ self.fallbackClient = NewOpenAI(config.openRouterApiKey, OpenRouterBaseURL)
              /\ self.mosaiaAgentId = config.mosaiaAgentId

\* construction refused for a triple whose only gap is an empty fallback key
C4_Witness ==
    /\ ctor.state = "threw"
    /\ NonEmptyString(config.mosaiaApiKey)
    /\ NonEmptyString(config.mosaiaAgentId)
    /\ config.openRouterApiKey = Str("")

(***************************************************************************)
(* Properties of classifyIssue (checked under Spec and SpecConcurrent).    *)
(***************************************************************************)
Finished(i) == pc[i] \in { "Parsed", "Failed", "Rejected" }

\* an answer from which an object can be extracted: a response with a choice
\* whose content is text holding a "{" and a later "}", the text from the
\* first "{" to the last "}" of the cleaned content being valid JSON
Extractable(o) ==
    /\ o.kind = "resolve"
    /\ Len(o.choices) >= 1
    /\ o.choices[1].type = "string"
    /\ HasBracePair(CleanText(o.choices[1].chars))
    /\ JSONParse(FirstToLast(CleanText(o.choices[1].chars))).ok

ObjectIn(o) == JSONParse(FirstToLast(CleanText(o.choices[1].chars))).val

Difficulties == { "easy", "medium", "difficult" }
Classification(d) == { << << << "difficulty" >> >>, StringLeaf(<< d >>) >> }

\* C1: no exception escapes classifyIssue, and when both attempts fail the
\* call returns null.
C1_NoExceptionEscapes ==
    \A i \in Calls :
        /\ result[i].kind # "throw"
        /\ (Finished(i) /\ Len(got[i]) = 2 /\ ~Extractable(got[i][1])
              /\ ~Extractable(got[i][2])) => result[i] = ReturnNull

\* the moves of an invocation that the state machine of classifyIssue allows
C2_Edges ==
    { << "Idle", "CallingPrimary" >>, << "CallingPrimary", "Parsed" >>,
      << "CallingPrimary", "CallingFallback" >>, << "CallingFallback", "Parsed" >>,
      << "CallingFallback", "Failed" >> }

\* what holds of invocation i in each of those states
C2_StateOK(i) ==
    /\ pc[i] \in { "Idle", "CallingPrimary", "CallingFallback", "Parsed", "Failed" }
    /\ pc[i] = "Idle" => sent[i] = << >>
    /\ pc[i] # "Idle" =>
         /\ Len(sent[i]) \in { 1, 2 }
         /\ sent[i][1].client = self.mosaiaClient
         /\ Len(sent[i]) = 2 =>
              /\ sent[i][2].client = self.fallbackClient
              /\ Len(got[i]) >= 1 /\ ~Extractable(got[i][1])
    /\ Len(sent[i]) - Len(got[i]) \in { 0, 1 }
    /\ Len(sent[i]) - Len(got[i]) = 1 <=> pc[i] \in { "CallingPrimary", "CallingFallback" }
    /\ (Len(got[i]) >= 1 /\ Extractable(got[i][1])) =>
         /\ pc[i] = "Parsed"
         /\ result[i] = Return(ObjectIn(got[i][1]))
         /\ Len(sent[i]) = 1

\* C2: an invocation moves only Idle -> CallingPrimary -> Parsed or
\* CallingFallback -> Parsed or Failed; the primary provider is called once
\* and first, the fallback at most once and only after the primary attempt
\* failed, at most one call is in flight, and a primary success returns the
\* primary's object without a fallback call.
C2_CallStateMachine ==
    /\ [](\A i \in Calls : C2_StateOK(i))
    /\ [][\A i \in Calls : pc'[i] = pc[i] \/ << pc[i], pc'[i] >> \in C2_Edges]_vars

\* C3: after a primary attempt that failed for whatever reason, one fallback
\* request has been issued, with the prompt of the primary request, the
\* fixed model identifier and the cap of 500; and an object extracted from
\* the fallback's answer is what classifyIssue returns.
C3_FallbackAfterAnyPrimaryFailure ==
    \A i \in Calls :
        (Len(got[i]) >= 1 /\ ~Extractable(got[i][1])) =>
            /\ Len(sent[i]) = 2
            /\ sent[i][2] = CompletionRequest(self.fallbackClient, Str(FallbackModel),
                                              sent[i][1].messages[1].content)
            /\ sent[i][2].max_tokens = sent[i][1].max_tokens
            /\ (Len(got[i]) = 2 /\ Extractable(got[i][2])) =>
                 result[i] = Return(ObjectIn(got[i][2]))

\* C5 as stated: every value returned is null or an object whose only field
\* is a difficulty among easy, medium, difficult.
C5_DifficultyAmongThree ==
    \A i \in Calls :
        result[i].kind = "return" => \E d \in Difficulties : result[i].value = Classification(d)

\* C5 as amended: a value returned is the object extracted from the answer
\* of the attempt that ended the call, whatever its fields, or null; null is
\* returned only after two answers from neither of which an object could be
\* extracted, and a finished call that got an extractable answer returned an
\* object.
C5_ReturnsExtractedObjectOrNull ==
    \A i \in Calls :
        /\ result[i].kind \in { "pending", "return", "null", "throw" }
        /\ result[i].kind = "return" =>
             /\ pc[i] = "Parsed"
             /\ Extractable(got[i][Len(got[i])])
             /\ result[i].value = ObjectIn(got[i][Len(got[i])])
        /\ result[i].kind = "null" =>
             /\ pc[i] = "Failed"
             /\ Len(got[i]) = 2
             /\ ~Extractable(got[i][1]) /\ ~Extractable(got[i][2])
        /\ (Finished(i) /\ \E k \in 1..Len(got[i]) : Extractable(got[i][k])) =>
             result[i].kind = "return"

\* the fallback answered with a difficulty outside the three, and it was returned
C5_Witness ==
    /\ pc[1] = "Parsed"
    /\ Len(got[1]) = 2
    /\ result[1] = Return(Classification("hard"))

\* classifyIssue with its four console lines (186, 189, 201, 204) taken out:
\* the providers it calls and the value it returns, given the answers os
ProvidersWithoutReporting(os) ==
    IF TryAttempt(os[1], "").out.kind = "return" THEN 1 ELSE 2

ResultWithoutReporting(os) ==
    LET a1 == TryAttempt(os[1], "").out
    IN  IF a1.kind = "return" THEN a1
        ELSE LET a2 == TryAttempt(os[2], "").out
             IN  IF a2.kind = "return" THEN a2 ELSE ReturnNull

\* C10: reporting to the console never changes the outcome: every finished
\* invocation called the providers, and returned the value, of the same code
\* without its console lines, also when the failure value has no message.
C10_ReportingChangesNothing ==
    \A i \in Calls :
        Finished(i) =>
            /\ Len(sent[i]) = ProvidersWithoutReporting(got[i])
            /\ Len(got[i]) >= ProvidersWithoutReporting(got[i]) =>
                 result[i] = ResultWithoutReporting(got[i])

\* what an invocation run alone on the constructed instance does with the
\* answers os: how it settles, and the requests it issues
SettlesAlone(os) ==
    LET a1 == TryAttempt(os[1], "").out
    IN  IF a1.kind = "return" THEN a1
        ELSE IF a1.err.nullish THEN Throw(TypeErr)
        ELSE LET a2 == TryAttempt(os[2], "").out
             IN  IF a2.kind = "return" THEN a2
                 ELSE IF a2.err.nullish THEN Throw(TypeErr)
                 ELSE ReturnNull

RequestsAlone(a, os) ==
    LET p == BuildPrompt(a.title, a.description, a.language, a.labels)
        primary == CompletionRequest(DefaultInstance.mosaiaClient,
                                     DefaultInstance.mosaiaAgentId, p)
        fallback == CompletionRequest(DefaultInstance.fallbackClient, Str(FallbackModel), p)
        a1 == TryAttempt(os[1], "").out
    IN  IF a1.kind = "return" \/ a1.err.nullish THEN << primary >>
        ELSE << primary, fallback >>

C6_SameAsAlone ==
    /\ \A i \in Calls :
         Finished(i) =>
             /\ result[i] = SettlesAlone(got[i])
             /\ sent[i] = RequestsAlone(args[i], got[i])
    /\ \A i, j \in Calls :
         (Finished(i) /\ Finished(j) /\ args[i] = args[j] /\ got[i] = got[j]) =>
             result[i] = result[j]

\* C6: however the invocations on one instance interleave, each finished
\* invocation settled as, and issued the requests of, the same invocation
\* run alone with its arguments and its answers; two finished invocations
\* with equal arguments and equal answers settled equally; and no step of
\* classifyIssue changes the instance's fields or creates a client.
C6_InvocationsIndependent ==
    /\ []C6_SameAsAlone
    /\ [][self' = self /\ clients' = clients]_vars

\* invocation 1 has finished through its fallback while invocation 2, called
\* with other arguments, still waits for its fallback
C6_Witness ==
    /\ pc[1] = "Parsed"
    /\ Len(got[1]) = 2
    /\ pc[2] = "CallingFallback"
    /\ args[1] # args[2]

=============================================================================
